---- MODULE Spec2Model ----
(***************************************************************************)
(* Model of the CSV command pipeline of src/main.py: RowFilter,            *)
(* DictAggregator and the aggregation strategies, the three commands       *)
(* (FilterCommand, OrderByCommand, AggregateCommand) and CsvApp.run.       *)
(*                                                                         *)
(* Python strings are sequences of code points, so that float() parsing,   *)
(* str.split, str.lower and lexicographic comparison are computed and not  *)
(* assumed.  Python floats are exact fractions n/d (rounding is not        *)
(* modelled; the cell alphabet holds finite decimals only, no "nan").      *)
(* Lists are objects on a heap, so that aliasing and in-place mutation can *)
(* be told apart from the construction of a new list.                      *)
(***************************************************************************)
EXTENDS Integers, Sequences, FiniteSets, TLC

\* Largest number of rows the reader returns.
MaxRows == 3

(***************************************************************************)
(* Python values: str, float and None.                                     *)
(***************************************************************************)
PyStr(s) == [t |-> "str", s |-> s, n |-> 0, d |-> 1]
PyFloat(n, d) == [t |-> "float", s |-> <<>>, n |-> n, d |-> d]
PyNone == [t |-> "None", s |-> <<>>, n |-> 0, d |-> 1]
\* float("nan"), the strategies' result on an empty list
PyNaN == [t |-> "nan", s |-> <<>>, n |-> 0, d |-> 1]

\* the strings "price", "9", "10", "9.0", "a", "", "asc", "desc", "DESC"
price == <<112, 114, 105, 99, 101>>
s9 == <<57>>
s10 == <<49, 48>>
s9dot0 == <<57, 46, 48>>
sa == <<97>>
sEmpty == <<>>
sAsc == <<97, 115, 99>>
sDesc == <<100, 101, 115, 99>>
sDESC == <<68, 69, 83, 67>>

IsDigit(c) == c \in 48..57

RECURSIVE DigitsValue(_)
DigitsValue(s) ==
    IF s = <<>> THEN 0
    ELSE 10 * DigitsValue(SubSeq(s, 1, Len(s) - 1)) + (s[Len(s)] - 48)

RECURSIVE Pow10(_)
Pow10(k) == IF k = 0 THEN 1 ELSE 10 * Pow10(k - 1)

\* index of the first "." of s, 0 when there is none
DotPos(s) ==
    IF \E i \in 1..Len(s) : s[i] = 46
    THEN CHOOSE i \in 1..Len(s) : s[i] = 46 /\ \A j \in 1..(i - 1) : s[j] # 46
    ELSE 0

\* float(v): the parsed value, or the exception float() raises.
\* Decimal literals digits[.digits] only.
float(v) ==
    IF v.t = "None" THEN [ok |-> FALSE, exc |-> "TypeError", val |-> PyNone]
    ELSE IF v.t # "str" THEN [ok |-> TRUE, exc |-> "", val |-> v]
    ELSE LET p == DotPos(v.s)
             ip == IF p = 0 THEN v.s ELSE SubSeq(v.s, 1, p - 1)
             fp == IF p = 0 THEN <<>> ELSE SubSeq(v.s, p + 1, Len(v.s))
             digits == ip \o fp
         IN IF digits # <<>> /\ \A i \in 1..Len(digits) : IsDigit(digits[i])
            THEN [ok |-> TRUE, exc |-> "",
                  val |-> PyFloat(DigitsValue(digits), Pow10(Len(fp)))]
            ELSE [ok |-> FALSE, exc |-> "ValueError", val |-> PyNone]

\* str < str: lexicographic order on code points
RECURSIVE StrLt(_, _)
StrLt(a, b) ==
    IF b = <<>> THEN FALSE
    ELSE IF a = <<>> THEN TRUE
    ELSE IF a[1] # b[1] THEN a[1] < b[1]
    ELSE StrLt(Tail(a), Tail(b))

\* a < b of Python: "True", "False" or "TypeError"
PyLt(a, b) ==
    IF a.t = "float" /\ b.t = "float"
    THEN IF a.n * b.d < b.n * a.d THEN "True" ELSE "False"
    ELSE IF a.t = "str" /\ b.t = "str"
    THEN IF StrLt(a.s, b.s) THEN "True" ELSE "False"
    ELSE "TypeError"

\* a == b of Python (never raises)
PyEq(a, b) ==
    IF a.t = "float" /\ b.t = "float" THEN a.n * b.d = b.n * a.d
    ELSE IF a.t = "str" /\ b.t = "str" THEN a.s = b.s
    ELSE a.t = "None" /\ b.t = "None"

\* str.lower on ASCII
lower(s) == [i \in 1..Len(s) |-> IF s[i] \in 65..90 THEN s[i] + 32 ELSE s[i]]

\* s.split("="): the pieces of s between the "=" characters
RECURSIVE split(_)
split(s) ==
    IF \A i \in 1..Len(s) : s[i] # 61 THEN <<s>>
    ELSE LET p == CHOOSE i \in 1..Len(s) :
                      s[i] = 61 /\ \A j \in 1..(i - 1) : s[j] # 61
         IN <<SubSeq(s, 1, p - 1)>> \o split(SubSeq(s, p + 1, Len(s)))

(***************************************************************************)
(* Rows: a dict object (id is its identity) from column name to cell.      *)
(***************************************************************************)
HasColumn(row, column) == column \in DOMAIN row.cells

(***************************************************************************)
(* RowFilter                                                               *)
(***************************************************************************)
\* RowFilter.__init__ / FilterFactory.create: stores the three fields
RowFilter(column, op, value) == [column |-> column, op |-> op, value |-> value]

\* match with an unknown operator failing the row instead of raising
match_UnknownOperatorFalse(f, row) ==
    IF ~HasColumn(row, f.column) THEN "KeyError"
    ELSE LET cell == row.cells[f.column]
             pc1 == float(cell)
             pc2 == float(f.value)
         IN IF ~pc1.ok /\ pc1.exc = "TypeError" THEN "TypeError"
            ELSE LET numeric == pc1.ok /\ pc2.ok
                     cell_val == IF numeric THEN pc1.val ELSE cell
                     value_val == IF numeric THEN pc2.val ELSE f.value
                 IN IF f.op = ">" THEN PyLt(value_val, cell_val)
                    ELSE IF f.op = "<" THEN PyLt(cell_val, value_val)
                    ELSE IF f.op = "="
                    THEN (IF PyEq(cell_val, value_val) THEN "True" ELSE "False")
                    ELSE "False"

\* match without the numeric parse: always on the raw strings
match_RawStrings(f, row) ==
    IF ~HasColumn(row, f.column) THEN "KeyError"
    ELSE LET cell == row.cells[f.column]
         IN IF cell.t = "None" THEN "TypeError"
            ELSE IF f.op = ">" THEN PyLt(f.value, cell)
            ELSE IF f.op = "<" THEN PyLt(cell, f.value)
            ELSE IF f.op = "="
            THEN (IF PyEq(cell, f.value) THEN "True" ELSE "False")
            ELSE "ValueError"

\* RowFilter.match: "True", "False", or the exception raised
match(f, row) ==
    IF ~HasColumn(row, f.column) THEN "KeyError"
    ELSE LET cell == row.cells[f.column]
             pc1 == float(cell)
             pc2 == float(f.value)
         IN IF ~pc1.ok /\ pc1.exc = "TypeError" THEN "TypeError"
            ELSE LET numeric == pc1.ok /\ pc2.ok
                     cell_val == IF numeric THEN pc1.val ELSE cell
                     value_val == IF numeric THEN pc2.val ELSE f.value
                 IN IF f.op = ">" THEN PyLt(value_val, cell_val)
                    ELSE IF f.op = "<" THEN PyLt(cell_val, value_val)
                    ELSE IF f.op = "="
                    THEN (IF PyEq(cell_val, value_val) THEN "True" ELSE "False")
                    ELSE "ValueError"

(***************************************************************************)
(* FilterCommand                                                           *)
(***************************************************************************)
\* FilterCommand.__init__: filter_factory.create(column, op, value)
FilterCommand(column, op, value) ==
    [kind |-> "filter", filter |-> RowFilter(column, op, value)]

\* [row for row in rows if self.filter.match(row)]: rows are visited in
\* order and the first exception of match ends the comprehension.
RECURSIVE FilterRows(_, _)
FilterRows(f, rows) ==
    IF rows = <<>> THEN [exc |-> "", rows |-> <<>>]
    ELSE LET m == match(f, Head(rows))
         IN IF m \notin {"True", "False"} THEN [exc |-> m, rows |-> <<>>]
            ELSE LET rest == FilterRows(f, Tail(rows))
                 IN IF rest.exc # "" THEN rest
                    ELSE [exc |-> "",
                          rows |-> IF m = "True" THEN <<Head(rows)>> \o rest.rows
                                   ELSE rest.rows]

FilterCommandExecute(cmd, rows) == FilterRows(cmd.filter, rows)

(***************************************************************************)
(* OrderByCommand                                                          *)
(***************************************************************************)
OrderByCommand(column, reverse) ==
    [kind |-> "order_by", column |-> column, reverse |-> reverse]

\* key_func: float(val), or val itself when float() raises ValueError or
\* TypeError; KeyError when the row lacks the column
key_func(column, r) ==
    IF ~HasColumn(r, column) THEN [exc |-> "KeyError", key |-> PyNone]
    ELSE LET val == r.cells[column]
             p == float(val)
         IN [exc |-> "", key |-> IF p.ok THEN p.val ELSE val]

Reverse(s) == [i \in 1..Len(s) |-> s[Len(s) + 1 - i]]

\* Insert x into the sorted sequence s behind every element that is not
\* greater than x; a comparison that raises ends the sort.
RECURSIVE Insert(_, _)
Insert(s, x) ==
    IF s = <<>> THEN [exc |-> "", seq |-> <<x>>]
    ELSE LET last == s[Len(s)]
             c == PyLt(x.key, last.key)
         IN IF c = "TypeError" THEN [exc |-> "TypeError", seq |-> <<>>]
            ELSE IF c = "False" THEN [exc |-> "", seq |-> Append(s, x)]
            ELSE LET r == Insert(SubSeq(s, 1, Len(s) - 1), x)
                 IN IF r.exc # "" THEN r
                    ELSE [exc |-> "", seq |-> Append(r.seq, last)]

\* list.sort on the keyed items: a stable comparison sort that uses only <
RECURSIVE StableSort(_)
StableSort(s) ==
    IF s = <<>> THEN [exc |-> "", seq |-> <<>>]
    ELSE LET r == StableSort(SubSeq(s, 1, Len(s) - 1))
         IN IF r.exc # "" THEN r ELSE Insert(r.seq, s[Len(s)])

\* sorted with reverse=True taken as the ascending result reversed
sorted_ReversedAfterwards(rows, column, reverse) ==
    LET keys == [i \in 1..Len(rows) |-> key_func(column, rows[i])]
        keyed == [i \in 1..Len(rows) |-> [key |-> keys[i].key, row |-> rows[i]]]
        r == StableSort(keyed)
    IN IF \E i \in 1..Len(rows) : keys[i].exc # ""
       THEN [exc |-> "KeyError", rows |-> <<>>]
       ELSE IF r.exc # "" THEN [exc |-> r.exc, rows |-> <<>>]
       ELSE LET o == IF reverse THEN Reverse(r.seq) ELSE r.seq
            IN [exc |-> "", rows |-> [i \in 1..Len(o) |-> o[i].row]]

\* sorted(rows, key=key_func, reverse=reverse): every key is computed first;
\* reverse=True sorts the reversed list and reverses the result, which keeps
\* equal keys in their input order.
sorted(rows, column, reverse) ==
    LET keys == [i \in 1..Len(rows) |-> key_func(column, rows[i])]
        keyed == [i \in 1..Len(rows) |-> [key |-> keys[i].key, row |-> rows[i]]]
        r == IF reverse THEN StableSort(Reverse(keyed)) ELSE StableSort(keyed)
    IN IF \E i \in 1..Len(rows) : keys[i].exc # ""
       THEN [exc |-> "KeyError", rows |-> <<>>]
       ELSE IF r.exc # "" THEN [exc |-> r.exc, rows |-> <<>>]
       ELSE LET o == IF reverse THEN Reverse(r.seq) ELSE r.seq
            IN [exc |-> "", rows |-> [i \in 1..Len(o) |-> o[i].row]]

OrderByCommandExecute(cmd, rows) == sorted(rows, cmd.column, cmd.reverse)

(***************************************************************************)
(* Aggregation strategies                                                  *)
(***************************************************************************)
FAdd(a, b) == PyFloat(a.n * b.d + b.n * a.d, a.d * b.d)
FDiv(a, k) == PyFloat(a.n, a.d * k)

RECURSIVE sum(_)
sum(values) ==
    IF values = <<>> THEN PyFloat(0, 1) ELSE FAdd(sum(Tail(values)), Head(values))

\* min(values): the first smallest element
RECURSIVE min(_)
min(values) ==
    IF Len(values) = 1 THEN values[1]
    ELSE LET m == min(SubSeq(values, 1, Len(values) - 1))
             x == values[Len(values)]
         IN IF PyLt(x, m) = "True" THEN x ELSE m

\* max(values): the first largest element
RECURSIVE max(_)
max(values) ==
    IF Len(values) = 1 THEN values[1]
    ELSE LET m == max(SubSeq(values, 1, Len(values) - 1))
             x == values[Len(values)]
         IN IF PyLt(m, x) = "True" THEN x ELSE m

\* statistics.median
median(values) ==
    LET data == StableSort([i \in 1..Len(values) |-> [key |-> values[i]]]).seq
        n == Len(data)
    IN IF n % 2 = 1 THEN data[(n \div 2) + 1].key
       ELSE FDiv(FAdd(data[n \div 2].key, data[(n \div 2) + 1].key), 2)

AvgAggregation(values) ==
    IF values # <<>> THEN FDiv(sum(values), Len(values)) ELSE PyNaN
MinAggregation(values) == IF values # <<>> THEN min(values) ELSE PyNaN
MaxAggregation(values) == IF values # <<>> THEN max(values) ELSE PyNaN
MedianAggregation(values) == IF values # <<>> THEN median(values) ELSE PyNaN

\* AggregationStrategyFactory._strategies
strategies == {"avg", "min", "max", "median"}

\* get falling back to avg for a name that is not registered
AggregationStrategyFactoryGet_Default(name) ==
    [exc |-> "", strategy |-> IF name \in strategies THEN name ELSE "avg"]

\* AggregationStrategyFactory.get
AggregationStrategyFactoryGet(name) ==
    IF name \notin strategies THEN [exc |-> "ValueError", strategy |-> ""]
    ELSE [exc |-> "", strategy |-> name]

\* strategy.aggregate(values), dispatched on the strategy object
StrategyAggregate(strategy, values) ==
    CASE strategy = "avg" -> AvgAggregation(values)
      [] strategy = "min" -> MinAggregation(values)
      [] strategy = "max" -> MaxAggregation(values)
      [] strategy = "median" -> MedianAggregation(values)

(***************************************************************************)
(* DictAggregator                                                          *)
(***************************************************************************)
DictAggregator(column, strategy) == [column |-> column, strategy |-> strategy]

\* the list comprehension of DictAggregator.aggregate
RECURSIVE Values(_, _)
Values(column, rows) ==
    IF rows = <<>> THEN [exc |-> "", values |-> <<>>]
    ELSE LET row == Head(rows)
         IN IF ~HasColumn(row, column) THEN [exc |-> "KeyError", values |-> <<>>]
            ELSE LET cell == row.cells[column]
                     skip == cell.t = "None" \/ (cell.t = "str" /\ cell.s = <<>>)
                     p == float(cell)
                 IN IF ~skip /\ ~p.ok THEN [exc |-> p.exc, values |-> <<>>]
                    ELSE LET rest == Values(column, Tail(rows))
                         IN IF rest.exc # "" THEN rest
                            ELSE [exc |-> "",
                                  values |-> IF skip THEN rest.values
                                             ELSE <<p.val>> \o rest.values]

\* aggregate without the test for an empty values list
DictAggregatorAggregate_NoEmptyTest(agg, rows) ==
    LET v == Values(agg.column, rows)
    IN IF v.exc # "" THEN [exc |-> v.exc, result |-> PyNone]
       ELSE [exc |-> "", result |-> StrategyAggregate(agg.strategy, v.values)]

\* DictAggregator.aggregate
DictAggregatorAggregate(agg, rows) ==
    LET v == Values(agg.column, rows)
    IN IF v.exc # "" THEN [exc |-> v.exc, result |-> PyNone]
       ELSE IF v.values = <<>> THEN [exc |-> "", result |-> PyNone]
       ELSE [exc |-> "", result |-> StrategyAggregate(agg.strategy, v.values)]

\* AggregatorFactory.create
AggregatorFactoryCreate(column, func) ==
    LET s == AggregationStrategyFactoryGet(func)
    IN IF s.exc # "" THEN [exc |-> s.exc, aggregator |-> DictAggregator(column, "")]
       ELSE [exc |-> "", aggregator |-> DictAggregator(column, s.strategy)]

AggregateCommand(aggregator, column, func) ==
    [kind |-> "aggregate", aggregator |-> aggregator, column |-> column,
     func |-> func]

(***************************************************************************)
(* CsvApp.run: assembly of the command list                                *)
(***************************************************************************)
\* truth value of an optional str argument (None and "" are false)
Truthy(v) == v.t = "str" /\ v.s # <<>>

\* if args.where: commands.append(FilterCommand(...))
WhereCommands(a) ==
    IF a.where.present
    THEN <<FilterCommand(a.where.column, a.where.op, a.where.value)>>
    ELSE <<>>

\* if args.order_by: "=" check, split, unpack into two names, lower()
OrderByCommands(a) ==
    IF ~Truthy(a.order_by) THEN [exc |-> "", at |-> "", commands |-> <<>>]
    ELSE IF \A i \in 1..Len(a.order_by.s) : a.order_by.s[i] # 61
    THEN [exc |-> "ValueError", at |-> "order_by format", commands |-> <<>>]
    ELSE LET parts == split(a.order_by.s)
         IN IF Len(parts) # 2
            THEN [exc |-> "ValueError", at |-> "order_by unpack", commands |-> <<>>]
            ELSE [exc |-> "", at |-> "",
                  commands |-> <<OrderByCommand(parts[1], lower(parts[2]) = sDesc)>>]

\* if args.aggregate: aggregator_factory.create, AggregateCommand
AggregateCommands(a) ==
    IF ~a.aggregate.present THEN [exc |-> "", at |-> "", commands |-> <<>>]
    ELSE LET c == AggregatorFactoryCreate(a.aggregate.column, a.aggregate.func)
         IN IF c.exc # ""
            THEN [exc |-> c.exc, at |-> "AggregationStrategyFactory.get",
                  commands |-> <<>>]
            ELSE [exc |-> "", at |-> "",
                  commands |-> <<AggregateCommand(c.aggregator, a.aggregate.column,
                                                  a.aggregate.func)>>]

\* the order-by command appended before the filter command
Commands_OrderByFirst(a) ==
    LET o == OrderByCommands(a)
        g == AggregateCommands(a)
    IN IF o.exc # "" THEN o
       ELSE IF g.exc # "" THEN g
       ELSE [exc |-> "", at |-> "",
             commands |-> o.commands \o WhereCommands(a) \o g.commands]

\* the aggregate command appended first
Commands_AggregateFirst(a) ==
    LET o == OrderByCommands(a)
        g == AggregateCommands(a)
    IN IF o.exc # "" THEN o
       ELSE IF g.exc # "" THEN g
       ELSE [exc |-> "", at |-> "",
             commands |-> g.commands \o WhereCommands(a) \o o.commands]

\* lines 249-265 of run: the commands in the order they are appended, or the
\* first exception raised while they are built
Commands(a) ==
    LET o == OrderByCommands(a)
        g == AggregateCommands(a)
    IN IF o.exc # "" THEN o
       ELSE IF g.exc # "" THEN g
       ELSE [exc |-> "", at |-> "",
             commands |-> WhereCommands(a) \o o.commands \o g.commands]

(***************************************************************************)
(* Inputs                                                                  *)
(***************************************************************************)
Cells == {PyStr(sEmpty), PyStr(s9), PyStr(s10), PyStr(s9dot0), PyStr(sa), PyNone}

\* a row with the price column, or a row that lacks it
RowCells == {[c \in {price} |-> v] : v \in Cells} \cup {[c \in {} |-> PyNone]}

\* what reader.read can return: up to MaxRows rows, row i being object i
Tables ==
    UNION {{[i \in 1..n |-> [id |-> i, cells |-> f[i]]] : f \in [1..n -> RowCells]}
           : n \in 0..MaxRows}

NoWhere == [present |-> FALSE, column |-> <<>>, op |-> "", value |-> PyNone]
WhereArgs ==
    {NoWhere} \cup
    {[present |-> TRUE, column |-> price, op |-> o, value |-> PyStr(v)] :
        o \in {">", "<", "=", "!"}, v \in {s9, sa}}

\* None, "price", "price=asc", "price=desc", "price=DESC", "price=asc=desc"
OrderByArgs ==
    {PyNone, PyStr(price), PyStr(price \o <<61>> \o sAsc),
     PyStr(price \o <<61>> \o sDesc), PyStr(price \o <<61>> \o sDESC),
     PyStr(price \o <<61>> \o sAsc \o <<61>> \o sDesc)}

NoAggregate == [present |-> FALSE, column |-> <<>>, func |-> ""]
AggregateArgs ==
    {NoAggregate} \cup
    {[present |-> TRUE, column |-> price, func |-> f] :
        f \in {"avg", "min", "max", "median", "sum"}}

Args == [where : WhereArgs, order_by : OrderByArgs, aggregate : AggregateArgs]

(***************************************************************************)
(* State                                                                   *)
(***************************************************************************)
VARIABLES
    pc,        \* position in run: start, assemble, exec, done, error
    args,      \* the argument object passed to run
    heap,      \* the list objects created so far; heap[1] is the reader's list
    rows,      \* the local variable rows of run: an index into heap
    commands,  \* the local variable commands of run
    ci,        \* index of the next command of  for cmd in commands
    trace,     \* the commands that have returned: stage, input and output list
    stdout,    \* what AggregateCommand.execute has printed
    printed,   \* the calls of printer.print: the list each call was given
    err        \* the exception that ended run

vars == <<pc, args, heap, rows, commands, ci, trace, stdout, printed, err>>

NoError == [exc |-> "", at |-> "", phase |-> ""]

Init ==
    /\ pc = "start"
    /\ args = [where |-> NoWhere, order_by |-> PyNone, aggregate |-> NoAggregate]
    /\ heap = <<>>
    /\ rows = 0
    /\ commands = <<>>
    /\ ci = 1
    /\ trace = <<>>
    /\ stdout = <<>>
    /\ printed = <<>>
    /\ err = NoError

Raise(exc, at, phase) ==
    /\ pc' = "error"
    /\ err' = [exc |-> exc, at |-> at, phase |-> phase]

\* rows = self.reader.read(args.file)
Read ==
    /\ pc = "start"
    /\ \E a \in Args, data \in Tables :
          /\ args' = a
          /\ heap' = <<data>>
          /\ rows' = 1
    /\ pc' = "assemble"
    /\ UNCHANGED <<commands, ci, trace, stdout, printed, err>>

\* reader.read raises (missing file, malformed text)
ReadFails ==
    /\ pc = "start"
    /\ \E a \in Args : args' = a
    /\ Raise("InputError", "reader.read", "read")
    /\ UNCHANGED <<heap, rows, commands, ci, trace, stdout, printed>>

\* lines 249-265 of run
Assemble ==
    /\ pc = "assemble"
    /\ LET c == Commands(args)
       IN IF c.exc # ""
          THEN /\ Raise(c.exc, c.at, "assemble")
               /\ UNCHANGED commands
          ELSE /\ commands' = c.commands
               /\ pc' = "exec"
               /\ UNCHANGED err
    /\ UNCHANGED <<args, heap, rows, ci, trace, stdout, printed>>

\* the command changing the list it was given and returning it
ReturnNew_InPlace(stage, r, at) ==
    IF r.exc # ""
    THEN /\ Raise(r.exc, at, "execute")
         /\ UNCHANGED <<heap, rows, ci, trace>>
    ELSE /\ heap' = [heap EXCEPT ![rows] = r.rows]
         /\ rows' = rows
         /\ ci' = ci + 1
         /\ trace' = Append(trace, [stage |-> stage, in |-> rows, out |-> rows])
         /\ UNCHANGED <<pc, err>>

\* rows = cmd.execute(rows) for a command that returns a new list
ReturnNew(stage, r, at) ==
    IF r.exc # ""
    THEN /\ Raise(r.exc, at, "execute")
         /\ UNCHANGED <<heap, rows, ci, trace>>
    ELSE /\ heap' = Append(heap, r.rows)
         /\ rows' = Len(heap) + 1
         /\ ci' = ci + 1
         /\ trace' = Append(trace, [stage |-> stage, in |-> rows,
                                    out |-> Len(heap) + 1])
         /\ UNCHANGED <<pc, err>>

ExecFilter ==
    /\ pc = "exec"
    /\ ci <= Len(commands)
    /\ commands[ci].kind = "filter"
    /\ ReturnNew("filter", FilterCommandExecute(commands[ci], heap[rows]),
                 "FilterCommand.execute")
    /\ UNCHANGED <<args, commands, stdout, printed>>

ExecOrderBy ==
    /\ pc = "exec"
    /\ ci <= Len(commands)
    /\ commands[ci].kind = "order_by"
    /\ ReturnNew("order_by", OrderByCommandExecute(commands[ci], heap[rows]),
                 "OrderByCommand.execute")
    /\ UNCHANGED <<args, commands, stdout, printed>>

\* AggregateCommand.execute: aggregate, print the result, return rows itself
ExecAggregate ==
    /\ pc = "exec"
    /\ ci <= Len(commands)
    /\ commands[ci].kind = "aggregate"
    /\ LET r == DictAggregatorAggregate(commands[ci].aggregator, heap[rows])
       IN IF r.exc # ""
          THEN /\ Raise(r.exc, "DictAggregator.aggregate", "execute")
               /\ UNCHANGED <<ci, trace, stdout>>
          ELSE /\ stdout' = Append(stdout, [header |-> commands[ci].func,
                                            value |-> r.result])
               /\ ci' = ci + 1
               /\ trace' = Append(trace, [stage |-> "aggregate", in |-> rows,
                                          out |-> rows])
               /\ UNCHANGED <<pc, err>>
    /\ UNCHANGED <<args, heap, rows, commands, printed>>

\* the table printed after every run
ShouldPrint_Always(a) == TRUE

\* if not args.aggregate
ShouldPrint(a) == ~a.aggregate.present

\* end of the loop: if not args.aggregate: self.printer.print(rows)
Finish ==
    /\ pc = "exec"
    /\ ci > Len(commands)
    /\ printed' = IF ShouldPrint(args) THEN Append(printed, rows)
                  ELSE printed
    /\ pc' = "done"
    /\ UNCHANGED <<args, heap, rows, commands, ci, trace, stdout, err>>

Next ==
    \/ Read
    \/ ReadFails
    \/ Assemble
    \/ ExecFilter
    \/ ExecOrderBy
    \/ ExecAggregate
    \/ Finish

Spec == Init /\ [][Next]_vars

TypeOK ==
    /\ pc \in {"start", "assemble", "exec", "done", "error"}
    /\ rows \in 0..Len(heap)

(***************************************************************************)
(* Vocabulary of the properties                                            *)
(***************************************************************************)
WhereRequested == args.where.present
OrderByRequested == Truthy(args.order_by)
AggregateRequested == args.aggregate.present

Started == pc # "start"
ReadDone == pc \in {"assemble", "exec", "done"} \/ (pc = "error" /\ err.phase # "read")

StageRank(stage) ==
    CASE stage = "filter" -> 1 [] stage = "order_by" -> 2 [] stage = "aggregate" -> 3

StageRequested(stage) ==
    CASE stage = "filter" -> WhereRequested
      [] stage = "order_by" -> OrderByRequested
      [] stage = "aggregate" -> AggregateRequested

Ran(stage) == \E i \in 1..Len(trace) : trace[i].stage = stage
EntryOf(stage) == trace[CHOOSE i \in 1..Len(trace) : trace[i].stage = stage]

\* the list the next stage receives: the reader's list, or the last output
Current == IF trace = <<>> THEN 1 ELSE trace[Len(trace)].out

FailedIn(at) == pc = "error" /\ err.phase = "execute" /\ err.at = at

AllHave(table, column) == \A i \in 1..Len(table) : HasColumn(table[i], column)
AllText(table, column) ==
    \A i \in 1..Len(table) :
        HasColumn(table[i], column) /\ table[i].cells[column].t = "str"

\* the number of "=" characters of a string
CountEq(s) == Cardinality({i \in 1..Len(s) : s[i] = 61})
OrderByWellFormed == ~OrderByRequested \/ CountEq(args.order_by.s) = 1

(***************************************************************************)
(* C1                                                                      *)
(***************************************************************************)
\* C1: whatever arguments are present, the stages that run are requested
\* stages, they run in the order filter, order-by, aggregate, each on the list
\* the previous one returned (the first on the reader's list); a run that
\* completes has run every requested stage; an absent stage never raises, so
\* a run with no stage requested completes once the input is read.
C1_FixedStageOrder ==
    /\ \A i \in 1..Len(trace) :
          /\ StageRequested(trace[i].stage)
          /\ trace[i].in = (IF i = 1 THEN 1 ELSE trace[i - 1].out)
          /\ \A j \in 1..Len(trace) :
                i < j => StageRank(trace[i].stage) < StageRank(trace[j].stage)
    /\ Started /\ pc # "error" => rows = Current
    /\ pc = "done" =>
          \A s \in {"filter", "order_by", "aggregate"} : Ran(s) <=> StageRequested(s)
    /\ pc = "error" /\ err.phase = "execute" =>
          /\ err.at = "FilterCommand.execute" => WhereRequested /\ trace = <<>>
          /\ err.at = "OrderByCommand.execute" =>
                OrderByRequested /\ ~Ran("order_by") /\ ~Ran("aggregate")
                /\ (Ran("filter") <=> WhereRequested)
          /\ err.at = "DictAggregator.aggregate" =>
                AggregateRequested /\ ~Ran("aggregate")
                /\ (Ran("filter") <=> WhereRequested)
                /\ (Ran("order_by") <=> OrderByRequested)
    /\ pc = "error" /\ err.phase = "assemble" =>
          OrderByRequested \/ AggregateRequested
    /\ ~WhereRequested /\ ~OrderByRequested /\ ~AggregateRequested =>
          (pc = "error" => err.phase = "read")

\* all three stages ran, the filter dropped a row and the sort moved one
C1_Witness ==
    /\ pc = "done"
    /\ Len(trace) = 3
    /\ Len(heap[trace[1].out]) \in 2..(Len(heap[1]) - 1)
    /\ heap[trace[2].out] # heap[trace[2].in]
    /\ stdout[1].value.t = "float"

(***************************************************************************)
(* C2                                                                      *)
(***************************************************************************)
\* C2: the printer is never called before the run completes; a run that
\* completes has called it exactly once, with the final list, when no
\* aggregate was requested, and has not called it at all when an aggregate
\* was requested, in which case the only output is the one aggregate result.
C2_PrintUnlessAggregate ==
    /\ pc # "done" => printed = <<>>
    /\ pc = "done" /\ ~AggregateRequested =>
          printed = <<Current>> /\ stdout = <<>>
    /\ pc = "done" /\ AggregateRequested =>
          /\ printed = <<>>
          /\ Len(stdout) = 1
          /\ stdout[1].header = args.aggregate.func

\* an aggregate with a filter and an order-by completed and nothing was printed
C2_Witness ==
    /\ pc = "done"
    /\ AggregateRequested /\ WhereRequested /\ OrderByRequested
    /\ printed = <<>>
    /\ heap[rows] # <<>>

(***************************************************************************)
(* C3                                                                      *)
(***************************************************************************)
UnknownAggregation ==
    AggregateRequested /\ args.aggregate.func \notin {"avg", "min", "max", "median"}

UnknownAggregationError ==
    /\ pc = "error"
    /\ err = [exc |-> "ValueError", at |-> "AggregationStrategyFactory.get",
              phase |-> "assemble"]

NothingProcessed ==
    /\ trace = <<>>
    /\ stdout = <<>>
    /\ printed = <<>>
    /\ Len(heap) = 1
    /\ rows = 1

InvalidOperator == WhereRequested /\ args.where.op \notin {">", "<", "="}

UnsupportedOperatorError ==
    FailedIn("FilterCommand.execute") /\ err.exc = "ValueError"

C5_NoOutputOnError ==
    pc = "error" =>
        /\ stdout = <<>>
        /\ printed = <<>>
        /\ err.phase = "read" => trace = <<>> /\ commands = <<>> /\ heap = <<>>

\* the aggregate failed on a bad cell after the filter and the sort had run
C5_Witness ==
    /\ FailedIn("DictAggregator.aggregate")
    /\ err.exc = "ValueError"
    /\ Len(trace) = 2
    /\ stdout = <<>>

(***************************************************************************)
(* C6                                                                      *)
(***************************************************************************)
\* every row has the column and its cell is "" or None
NoEligibleValue(table, column) ==
    \A i \in 1..Len(table) :
        /\ HasColumn(table[i], column)
        /\ table[i].cells[column] \in {PyStr(<<>>), PyNone}

\* C6: the aggregator's result is never the not-a-number sentinel; when no row
\* has an eligible value (no row at all, or only "" and null cells) the
\* aggregator does not raise and its result is None, for every strategy.
C6_AbsentResultOnEmpty ==
    /\ \A i \in 1..Len(stdout) : stdout[i].value.t \in {"float", "None"}
    /\ Ran("aggregate") /\ NoEligibleValue(heap[EntryOf("aggregate").in], args.aggregate.column) =>
          stdout[1].value = PyNone
    /\ Ran("aggregate") /\ stdout[1].value = PyNone =>
          NoEligibleValue(heap[EntryOf("aggregate").in], args.aggregate.column)
    /\ FailedIn("DictAggregator.aggregate") =>
          ~NoEligibleValue(heap[rows], args.aggregate.column)

\* median over three rows whose cells are "" and None gave None
C6_Witness ==
    /\ Ran("aggregate")
    /\ args.aggregate.func = "median"
    /\ Len(heap[rows]) = MaxRows
    /\ \E i, j \in 1..Len(heap[rows]) :
          /\ heap[rows][i].cells[price] = PyNone
          /\ heap[rows][j].cells[price] = PyStr(<<>>)
    /\ stdout = <<[header |-> "median", value |-> PyNone]>>

(***************************************************************************)
(* C7                                                                      *)
(***************************************************************************)
IsNumber(s) == float(PyStr(s)).ok
NumberOf(s) == float(PyStr(s)).val

\* the comparison of a text cell with the literal, as the claim states it
Satisfies(cell, op, literal) ==
    IF IsNumber(cell) /\ IsNumber(literal)
    THEN LET x == NumberOf(cell)
             y == NumberOf(literal)
         IN CASE op = ">" -> x.n * y.d > y.n * x.d
              [] op = "<" -> x.n * y.d < y.n * x.d
              [] op = "=" -> x.n * y.d = y.n * x.d
    ELSE CASE op = ">" -> StrLt(literal, cell)
           [] op = "<" -> StrLt(cell, literal)
           [] op = "=" -> cell = literal

FilterAttempted == Ran("filter") \/ FailedIn("FilterCommand.execute")

FilterResultExact ==
    /\ Ran("filter")
    /\ LET e == EntryOf("filter")
           keep(r) == Satisfies(r.cells[args.where.column].s, args.where.op,
                                args.where.value.s)
       IN heap[e.out] = SelectSeq(heap[e.in], keep)

SortColumn == split(args.order_by.s)[1]
SortKey(r) == key_func(SortColumn, r).key
Descending == lower(split(args.order_by.s)[2]) = sDesc

\* the same row objects, each once
IsPermutation(a, b) ==
    /\ Len(a) = Len(b)
    /\ \A i \in 1..Len(a) : \E j \in 1..Len(b) : b[j] = a[i]
    /\ \A i, j \in 1..Len(b) : i # j => b[i] # b[j]

PositionIn(table, r) == CHOOSE i \in 1..Len(table) : table[i] = r

\* some cell of the sort column parses as a number and some text cell does not
MixedColumn(table, column) ==
    /\ AllText(table, column)
    /\ \E i \in 1..Len(table) : IsNumber(table[i].cells[column].s)
    /\ \E i \in 1..Len(table) : ~IsNumber(table[i].cells[column].s)

\* C8 as stated: the sort of a row collection whose sort column mixes numeric
\* and non-numeric cells does not fail.
C8_MixedSortCompletes ==
    ~(/\ FailedIn("OrderByCommand.execute")
      /\ MixedColumn(heap[rows], SortColumn))

\* C9: when the sort returns, its output holds the same rows as its input,
\* ordered by the key (no later key is smaller when ascending, none is larger
\* when descending), and rows with equal keys are in their input order, in
\* both directions.
C9_StableSort ==
    Ran("order_by") =>
        LET e == EntryOf("order_by")
            in == heap[e.in]
            out == heap[e.out]
        IN /\ IsPermutation(in, out)
           /\ \A i, j \in 1..Len(out) :
                 i < j =>
                    /\ ~Descending => PyLt(SortKey(out[j]), SortKey(out[i])) = "False"
                    /\ Descending => PyLt(SortKey(out[i]), SortKey(out[j])) = "False"
                    /\ PyEq(SortKey(out[i]), SortKey(out[j])) =>
                          PositionIn(in, out[i]) < PositionIn(in, out[j])

\* a descending sort moved a row and kept "9" and "9.0", whose keys are
\* equal, in their input order
C9_Witness ==
    /\ Ran("order_by")
    /\ Descending
    /\ LET e == EntryOf("order_by")
       IN /\ heap[e.out] # heap[e.in]
          /\ \E i, j \in 1..Len(heap[e.out]) :
                /\ i < j
                /\ heap[e.out][i].cells[price] = PyStr(s9)
                /\ heap[e.out][j].cells[price] = PyStr(s9dot0)

(***************************************************************************)
(* C10                                                                     *)
(***************************************************************************)
\* C10: no step changes a list that exists (the reader's list included);
\* the filter and the sort return a list that did not exist before, and the
\* aggregate returns the very list it was given, whatever its result.
C10_InputsUnchanged ==
    [][/\ \A i \in 1..Len(heap) : Len(heap') >= i /\ heap'[i] = heap[i]
       /\ Len(trace') = Len(trace) + 1 =>
             LET e == trace'[Len(trace')]
             IN /\ e.in = rows
                /\ rows' = e.out
                /\ IF e.stage = "aggregate"
                   THEN e.out = e.in /\ heap' = heap
                   ELSE e.out = Len(heap) + 1 /\ Len(heap') = Len(heap) + 1]_vars

\* filter, sort and an aggregate with the absent result have run, and the
\* filter dropped a row
C10_Witness ==
    /\ pc = "done"
    /\ Len(trace) = 3
    /\ stdout[1].value = PyNone
    /\ Len(heap[1]) = MaxRows
    /\ Len(heap[2]) = 2
    /\ rows = 3

====
